---- MODULE Spec2Model ----
\* Model of the dynamic proxy of src/pkg/server/server.go: the per-port group
\* registry (portGroups), the weighted selection of a backend, the per-port
\* terminate signal ("generation token") that handleActivation closes and
\* replaces, and the connection handlers that block on it.
\*
\* Weights are float64 in the source; the model uses integers (the registry
\* only compares a weight with 0 and stores it).  Goroutines interleave at
\* their accesses to shared state: one action per access.  The accesses to
\* the terminateSignals map are not synchronised in the source; the model
\* lets a racing reader see the value before or after the racing write.
EXTENDS Integers, Sequences, FiniteSets, TLC

\* ---------------------------------------------------------------- bounds
\* goroutines a run starts: accepted clients (handleClient) and activation
\* requests (handleActivation) together
MaxGoroutines == 3
\* longest groups / weights list of an activation request
MaxLen == 2
\* largest weight a request carries
MaxWeight == 2

\* ---------------------------------------------------------------- domains
\* ports given to New (each gets a table, a terminate signal and a listener)
RegisteredPorts == {1, 2}
\* a port only the control plane addresses
UnregisteredPorts == {3}
Ports == RegisteredPorts \cup UnregisteredPorts

\* the zero value of a channel (a missing key of terminateSignals)
NilChan == 0

ConnIds == 1..MaxGoroutines
ActIds == 1..MaxGoroutines
ProcIds == 1..MaxGoroutines

VARIABLES
  portGroups,        \* map[int]map[string]group
  terminateSignals,  \* map[int]chan struct{}: port -> channel id
  chanMade,          \* channels made so far for each port (ids 1..chanMade[p])
  chanClosed,        \* the closed channels of each port
  connections,       \* the live-connection counter
  conns,             \* the accepted clients and their handleClient goroutines
  acts,              \* the handleActivation requests in flight
  lastCall,          \* the registry method called last (history)
  mu,                \* portGroupsMu: its writer and its readers
  procs,             \* the registry methods in progress, step by step
  listen             \* the PortListen loop of each port given to New

vars == <<portGroups, terminateSignals, chanMade, chanClosed, connections,
          conns, acts, lastCall, mu, procs, listen>>
lockVars == <<mu, procs>>
regVars == <<portGroups>>
tokVars == <<terminateSignals, chanMade, chanClosed>>
connVars == <<connections, conns>>

\* ---------------------------------------------------------------- registry
\* make(map[string]group)
EmptyTable == [g \in {} |-> [Weight |-> 0, Servers |-> <<>>]]

\* "Ensure the port group exists"
EnsurePort(pg, port) ==
  IF port \in DOMAIN pg THEN pg
  ELSE [p \in DOMAIN pg \cup {port} |-> IF p = port THEN EmptyTable ELSE pg[p]]

\* table t with key g set to v (svr.portGroups[port][g] = v)
PutGroup(t, g, v) ==
  [k \in DOMAIN t \cup {g} |-> IF k = g THEN v ELSE t[k]]

\* setGroupServers writing the weight of the request into an existing group too
setGroupServersOverwrite(pg, port, g, servers, weight) ==
  LET pg1 == EnsurePort(pg, port)
  IN [pg1 EXCEPT ![port] =
        PutGroup(pg1[port], g, [Weight |-> weight, Servers |-> servers])]

\* setGroupServers creating every new group inactive
setGroupServersInactive(pg, port, g, servers, weight) ==
  LET pg1 == EnsurePort(pg, port)
      t == pg1[port]
      v == IF g \in DOMAIN t
           THEN [Weight |-> IF weight > 0 THEN weight ELSE t[g].Weight,
                 Servers |-> servers]
           ELSE [Weight |-> 0, Servers |-> servers]
  IN [pg1 EXCEPT ![port] = PutGroup(t, g, v)]

setGroupServers(pg, port, g, servers, weight) ==
  LET pg1 == EnsurePort(pg, port)
      t == pg1[port]
      v == IF g \in DOMAIN t
           THEN [Weight |-> IF weight > 0 THEN weight ELSE t[g].Weight,
                 Servers |-> servers]
           ELSE [Weight |-> weight, Servers |-> servers]
  IN [pg1 EXCEPT ![port] = PutGroup(t, g, v)]

\* deleteGroup emptying the table of the port
deleteGroupClearsTable(pg, port, g) ==
  IF port \in DOMAIN pg THEN [pg EXCEPT ![port] = EmptyTable] ELSE pg

deleteGroup(pg, port, g) ==
  IF port \in DOMAIN pg
  THEN [pg EXCEPT ![port] = [k \in DOMAIN pg[port] \ {g} |-> pg[port][k]]]
  ELSE pg

\* the zeroing loop left out
KeepWeights(t) == t

\* the zeroing loop dropping the servers of the groups it deactivates
ZeroWeightsDropServers(t) ==
  [k \in DOMAIN t |-> [Weight |-> 0, Servers |-> <<>>]]

\* "Set all weights to 0 for this port"
ZeroWeights(t) == [k \in DOMAIN t |-> [t[k] EXCEPT !.Weight = 0]]

\* the loop over groups giving a name without a weight the weight 1
RECURSIVE ApplyGroupsDefaultOne(_, _, _, _)
ApplyGroupsDefaultOne(t, groups, weights, i) ==
  IF i > Len(groups) THEN t
  ELSE LET g == groups[i]
           weight == IF i <= Len(weights) THEN weights[i] ELSE 1
           t1 == IF g \in DOMAIN t /\ weight > 0
                 THEN [t EXCEPT ![g].Weight = weight]
                 ELSE t
       IN ApplyGroupsDefaultOne(t1, groups, weights, i + 1)

\* the loop over groups creating a group for a name the table does not have
RECURSIVE ApplyGroupsCreate(_, _, _, _)
ApplyGroupsCreate(t, groups, weights, i) ==
  IF i > Len(groups) THEN t
  ELSE LET g == groups[i]
           weight == IF i <= Len(weights) THEN weights[i] ELSE 0
           t1 == IF g \in DOMAIN t
                 THEN IF weight > 0 THEN [t EXCEPT ![g].Weight = weight] ELSE t
                 ELSE PutGroup(t, g, [Weight |-> weight, Servers |-> <<>>])
       IN ApplyGroupsCreate(t1, groups, weights, i + 1)

\* the loop over groups storing the weight of every occurrence of a name
RECURSIVE ApplyGroupsAssign(_, _, _, _)
ApplyGroupsAssign(t, groups, weights, i) ==
  IF i > Len(groups) THEN t
  ELSE LET g == groups[i]
           weight == IF i <= Len(weights) THEN weights[i] ELSE 0
           t1 == IF g \in DOMAIN t
                 THEN [t EXCEPT ![g].Weight = weight]
                 ELSE t
       IN ApplyGroupsAssign(t1, groups, weights, i + 1)

\* the loop over groups of setActiveGroups, from index i on
RECURSIVE ApplyGroups(_, _, _, _)
ApplyGroups(t, groups, weights, i) ==
  IF i > Len(groups) THEN t
  ELSE LET g == groups[i]
           weight == IF i <= Len(weights) THEN weights[i] ELSE 0
           t1 == IF g \in DOMAIN t /\ weight > 0
                 THEN [t EXCEPT ![g].Weight = weight]
                 ELSE t
       IN ApplyGroups(t1, groups, weights, i + 1)

\* setActiveGroups zeroing the groups of every port
setActiveGroupsEveryPort(pg, port, groups, weights) ==
  LET pg1 == EnsurePort(pg, port)
  IN [q \in DOMAIN pg1 |->
        IF q = port
        THEN ApplyGroups(ZeroWeights(pg1[q]), groups, weights, 1)
        ELSE ZeroWeights(pg1[q])]

setActiveGroups(pg, port, groups, weights) ==
  LET pg1 == EnsurePort(pg, port)
  IN [pg1 EXCEPT ![port] = ApplyGroups(ZeroWeights(pg1[port]), groups, weights, 1)]

\* ---------------------------------------------------------------- selection
\* the filter letting a group of weight 0 through
ActiveGroupsZeroWeight(t) ==
  {g \in DOMAIN t : t[g].Weight >= 0 /\ Len(t[g].Servers) > 0}

\* the filter letting a group without servers through
ActiveGroupsNoServers(t) == {g \in DOMAIN t : t[g].Weight > 0}

\* the groups selectServerByWeight keeps: weight > 0 and at least one server
ActiveGroups(t) == {g \in DOMAIN t : t[g].Weight > 0 /\ Len(t[g].Servers) > 0}

\* the orders in which "for name, group := range portGroup" can visit a set
Orders(S) ==
  {o \in [1..Cardinality(S) -> S] : \A i, j \in DOMAIN o : o[i] = o[j] => i = j}

\* float64 in the small: the largest finite weight lies above every sum of
\* the weights up to MaxWeight; a sum above it is +Inf
MaxFloat64 == 4 * MaxWeight
Inf == MaxFloat64 + 1

\* cumulativeWeight += g.weight (and totalWeight += group.Weight) in float64
RECURSIVE SumWeights(_, _, _)
SumWeights(t, order, n) ==
  IF n = 0 THEN 0
  ELSE LET s == SumWeights(t, order, n - 1) + t[order[n]].Weight
       IN IF s > MaxFloat64 THEN Inf ELSE s

\* resolution of the draw: r = k / RScale for an integer k
RScale == 2

\* the draw 0 * +Inf: not a number, every comparison with it is false
NaN == 0 - 1

\* the draws rand.Float64() * totalWeight can give, in units of 1 / RScale:
\* the product is 0 when totalWeight is 0; when totalWeight is +Inf it is
\* NaN for rand.Float64() = 0 and +Inf otherwise
Draws(totalWeight) ==
  IF totalWeight = 0 THEN {0}
  ELSE IF totalWeight = Inf THEN {NaN, Inf * RScale}
  ELSE 0..(totalWeight * RScale - 1)

\* the value logger.Fatal() leaves select with: the process exits
FatalExit == "<fatal>"

\* the loop comparing the draw with the weight of each group on its own
RECURSIVE SelectGroupNoCumulative(_, _, _, _)
SelectGroupNoCumulative(t, order, k, i) ==
  IF i > Len(order) THEN ""
  ELSE IF k # NaN /\ k <= t[order[i]].Weight * RScale THEN order[i]
  ELSE SelectGroupNoCumulative(t, order, k, i + 1)

\* the loop breaking at its first group, whatever the draw
SelectGroupFirst(t, order, k, i) ==
  IF i > Len(order) THEN "" ELSE order[i]

\* the first group of the order with r <= cumulativeWeight, "" when none
RECURSIVE SelectGroup(_, _, _, _)
SelectGroup(t, order, k, i) ==
  IF i > Len(order) THEN ""
  ELSE IF k # NaN /\ k <= SumWeights(t, order, i) * RScale THEN order[i]
  ELSE SelectGroup(t, order, k, i + 1)

\* one run of selectServerByWeight: order is the map iteration order of the
\* active groups, k the draw, idx the value of rand.Intn(len(servers))
selectServerByWeight(pg, port, order, k, idx) ==
  IF port \notin DOMAIN pg THEN ""
  ELSE IF ActiveGroups(pg[port]) = {} THEN ""
  ELSE LET selectedGroup == SelectGroup(pg[port], order, k, 1)
       IN IF selectedGroup = "" THEN FatalExit
          ELSE LET servers == pg[port][selectedGroup].Servers
               IN IF Len(servers) = 0 THEN FatalExit
                  ELSE servers[idx + 1]

\* totalWeight: the sum over the active groups
TotalWeight(t) ==
  SumWeights(t, CHOOSE o \in Orders(ActiveGroups(t)) : TRUE,
             Cardinality(ActiveGroups(t)))

\* the values rand.Intn can return for the group the run selects
IntnRange(t, order, k) ==
  LET g == SelectGroup(t, order, k, 1)
  IN IF g = "" \/ Len(t[g].Servers) = 0 THEN {0}
     ELSE 0..(Len(t[g].Servers) - 1)

\* every value one call of selectServerByWeight(port) can return
SelectOutcomes(pg, port) ==
  IF port \notin DOMAIN pg \/ ActiveGroups(pg[port]) = {} THEN {""}
  ELSE LET t == pg[port]
       IN UNION {{selectServerByWeight(pg, port, o, k, idx) :
                    idx \in IntnRange(t, o, k)} :
                 o \in Orders(ActiveGroups(t)), k \in Draws(TotalWeight(t))}

\* ---------------------------------------------------------------- state
NoCall == [op |-> "none"]

FreeConn ==
  [state |-> "free", port |-> 0, server |-> "", tok |-> NilChan,
   dialTok |-> NilChan, clientOpen |-> FALSE, backendOpen |-> FALSE,
   eof |-> FALSE]

\* accepted is history: the clients accepted before setActiveGroups returned
IdleAct == [pc |-> "idle", port |-> 0, ch |-> NilChan, accepted |-> 0]

\* sync.RWMutex: w is the goroutine holding Lock (0: none), r those holding
\* RLock
FreeMutex == [w |-> 0, r |-> {}]

\* a registry method in progress: seen1 and seen2 hold what a reader read
\* (at most one table each), before and after the registry a writer found
\* at Lock and left at Unlock
IdleProc ==
  [kind |-> "none", pc |-> "idle", port |-> 0, groups |-> <<>>,
   weights |-> <<>>, seen1 |-> {}, seen2 |-> {}, before |-> {}, after |-> {}]

\* a PortListen loop: whether the listener is open, whether the loop is
\* still calling accept, and the error of the last accept that failed
Listening == [open |-> TRUE, state |-> "accepting", lastErr |-> ""]

\* New(logger, httpPort, ports...) and the PortListen goroutines of main
Init ==
  /\ portGroups = [p \in RegisteredPorts |-> EmptyTable]
  /\ terminateSignals = [p \in RegisteredPorts |-> 1]
  /\ chanMade = [p \in Ports |-> IF p \in RegisteredPorts THEN 1 ELSE 0]
  /\ chanClosed = [p \in Ports |-> {}]
  /\ connections = 0
  /\ conns = [c \in ConnIds |-> FreeConn]
  /\ acts = [a \in ActIds |-> IdleAct]
  /\ lastCall = NoCall
  /\ mu = FreeMutex
  /\ procs = [i \in ProcIds |-> IdleProc]
  /\ listen = [p \in RegisteredPorts |-> Listening]

\* slots are taken in order: c is the first free one
FirstFree(f, i, idle) == f[i] = idle /\ \A j \in DOMAIN f : j < i => f[j] # idle

\* the goroutines started so far
Started ==
  Cardinality({c \in ConnIds : conns[c] # FreeConn})
    + Cardinality({a \in ActIds : acts[a] # IdleAct})

\* ---------------------------------------------------------------- registry calls
\* the registry methods called directly, one call after the other (as the
\* tests of the package call them); lastCall holds the call until it is
\* forgotten
CallSetGroupServers(p, g, servers, weight) ==
  /\ lastCall = NoCall
  /\ portGroups' = setGroupServers(portGroups, p, g, servers, weight)
  /\ lastCall' = [op |-> "setGroupServers", port |-> p, group |-> g,
                  servers |-> servers, weight |-> weight]
  /\ UNCHANGED <<tokVars, connVars, acts, lockVars, listen>>

CallDeleteGroup(p, g) ==
  /\ lastCall = NoCall
  /\ portGroups' = deleteGroup(portGroups, p, g)
  /\ lastCall' = [op |-> "deleteGroup", port |-> p, group |-> g]
  /\ UNCHANGED <<tokVars, connVars, acts, lockVars, listen>>

CallSetActiveGroups(p, groups, weights) ==
  /\ lastCall = NoCall
  /\ portGroups' = setActiveGroups(portGroups, p, groups, weights)
  /\ lastCall' = [op |-> "setActiveGroups", port |-> p, groups |-> groups,
                  weights |-> weights]
  /\ UNCHANGED <<tokVars, connVars, acts, lockVars, listen>>

\* selectServerByWeight(p) called directly: the call records the iteration
\* order, the draw and the server index of the run and what it returned
CallSelect(p, order, k, idx) ==
  /\ lastCall = NoCall
  /\ lastCall' = [op |-> "select", port |-> p, order |-> order, k |-> k,
                  idx |-> idx,
                  result |-> selectServerByWeight(portGroups, p, order, k, idx)]
  /\ UNCHANGED <<regVars, tokVars, connVars, acts, lockVars, listen>>

\* a select has run into logger.Fatal(): os.Exit(1), the process is gone
Exited == lastCall.op = "select" /\ lastCall.result = FatalExit

\* the caller has looked at the result of the call and goes on
CallReturn ==
  /\ lastCall # NoCall
  /\ ~Exited
  /\ lastCall' = NoCall
  /\ UNCHANGED <<regVars, tokVars, connVars, acts, lockVars, listen>>

\* ---------------------------------------------------------------- control plane
\* POST /ports/{port}/groups: handleSetGroup -> setGroupServers
HandleSetGroup(p, g, servers, weight) ==
  /\ portGroups' = setGroupServers(portGroups, p, g, servers, weight)
  /\ UNCHANGED <<tokVars, connVars, acts, lastCall, lockVars, listen>>

\* a deleteGroup that also closes the signal of the port
HandleDeleteGroupAdvances(p, g) ==
  /\ portGroups' = deleteGroup(portGroups, p, g)
  /\ chanClosed' = [chanClosed EXCEPT ![p] = @ \cup {terminateSignals[p]}]
  /\ UNCHANGED <<terminateSignals, chanMade, connVars, acts, lastCall, lockVars, listen>>

\* DELETE /ports/{port}/group/{group}: handleDeleteGroup -> deleteGroup
HandleDeleteGroup(p, g) ==
  /\ portGroups' = deleteGroup(portGroups, p, g)
  /\ UNCHANGED <<tokVars, connVars, acts, lastCall, lockVars, listen>>

\* POST /ports/{port}/activate, up to the return of setActiveGroups
ActStart(a, p, groups, weights) ==
  /\ Started < MaxGoroutines
  /\ FirstFree(acts, a, IdleAct)
  /\ portGroups' = setActiveGroups(portGroups, p, groups, weights)
  /\ acts' = [acts EXCEPT ![a] =
                [pc |-> "read", port |-> p, ch |-> NilChan,
                 accepted |-> Cardinality({c \in ConnIds : conns[c] # FreeConn})]]
  /\ UNCHANGED <<tokVars, connVars, lastCall, lockVars, listen>>

\* the map read of close(svr.terminateSignals[port])
ActRead(a) ==
  /\ acts[a].pc = "read"
  /\ acts' = [acts EXCEPT ![a].pc = "close",
                          ![a].ch = IF acts[a].port \in DOMAIN terminateSignals
                                    THEN terminateSignals[acts[a].port]
                                    ELSE NilChan]
  /\ UNCHANGED <<regVars, tokVars, connVars, lastCall, lockVars, listen>>

\* close() that wakes nobody
ActCloseLost(a) ==
  /\ acts[a].pc = "close"
  /\ acts' = [acts EXCEPT ![a].pc = "install", ![a].accepted = 0]
  /\ UNCHANGED <<regVars, tokVars, connVars, lastCall, lockVars, listen>>

\* one signal for the whole server: the close reaches the waiters of every port
ActCloseEveryPort(a) ==
  /\ acts[a].pc = "close"
  /\ acts[a].ch # NilChan
  /\ acts[a].ch \notin chanClosed[acts[a].port]
  /\ acts' = [acts EXCEPT ![a].pc = "install", ![a].accepted = 0]
  /\ chanClosed' = [q \in Ports |->
                     IF q = acts[a].port THEN chanClosed[q] \cup {acts[a].ch}
                     ELSE IF q \in DOMAIN terminateSignals
                          THEN chanClosed[q] \cup {terminateSignals[q]}
                          ELSE chanClosed[q]]
  /\ UNCHANGED <<regVars, terminateSignals, chanMade, connVars, lastCall, lockVars, listen>>

\* close(ch): panics on a nil channel and on a closed channel (net/http
\* recovers the panic of a handler: the request ends, the process goes on)
ActClose(a) ==
  /\ acts[a].pc = "close"
  /\ IF acts[a].ch = NilChan \/ acts[a].ch \in chanClosed[acts[a].port]
     THEN /\ acts' = [acts EXCEPT ![a].pc = "panicked", ![a].accepted = 0]
          /\ UNCHANGED chanClosed
     ELSE /\ acts' = [acts EXCEPT ![a].pc = "install", ![a].accepted = 0]
          /\ chanClosed' = [chanClosed EXCEPT ![acts[a].port] = @ \cup {acts[a].ch}]
  /\ UNCHANGED <<regVars, terminateSignals, chanMade, connVars, lastCall, lockVars, listen>>

\* the request returns with the closed signal left in the map
ActInstallSame(a) ==
  /\ acts[a].pc = "install"
  /\ acts' = [acts EXCEPT ![a].pc = "done", ![a].ch = NilChan]
  /\ UNCHANGED <<regVars, tokVars, connVars, lastCall, lockVars, listen>>

\* svr.terminateSignals[port] = make(chan struct{}); return nil (the locals
\* of the request are gone)
ActInstall(a) ==
  /\ acts[a].pc = "install"
  /\ LET p == acts[a].port
         fresh == chanMade[p] + 1
     IN /\ chanMade' = [chanMade EXCEPT ![p] = fresh]
        /\ terminateSignals' =
             [q \in DOMAIN terminateSignals \cup {p} |->
                IF q = p THEN fresh ELSE terminateSignals[q]]
  /\ acts' = [acts EXCEPT ![a].pc = "done", ![a].ch = NilChan]
  /\ UNCHANGED <<regVars, chanClosed, connVars, lastCall, lockVars, listen>>

\* ---------------------------------------------------------------- proxy
\* accept starting a handler whatever select returned
AcceptAlwaysHandles(c, p) ==
  /\ listen[p].state = "accepting" /\ listen[p].open
  /\ Started < MaxGoroutines
  /\ FirstFree(conns, c, FreeConn)
  /\ \E s \in SelectOutcomes(portGroups, p) :
       conns' = [conns EXCEPT ![c] =
                   [FreeConn EXCEPT !.state = "dialing", !.port = p,
                                    !.server = s, !.clientOpen = TRUE]]
  /\ UNCHANGED <<regVars, tokVars, connections, acts, lastCall, lockVars, listen>>

\* accept: listener.Accept succeeds, selectServerByWeight, go handleClient
Accept(c, p) ==
  /\ listen[p].state = "accepting" /\ listen[p].open
  /\ Started < MaxGoroutines
  /\ FirstFree(conns, c, FreeConn)
  /\ \E s \in SelectOutcomes(portGroups, p) :
       conns' = [conns EXCEPT ![c] =
                   IF s = ""
                   THEN [FreeConn EXCEPT !.state = "refused", !.port = p]
                   ELSE [FreeConn EXCEPT !.state = "dialing", !.port = p,
                                         !.server = s, !.clientOpen = TRUE]]
  /\ UNCHANGED <<regVars, tokVars, connections, acts, lastCall, lockVars, listen>>

\* net.Dial fails: handleClient returns (before its defers are set up)
DialFail(c) ==
  /\ conns[c].state = "dialing"
  /\ conns' = [conns EXCEPT ![c].state = "dialfail"]
  /\ UNCHANGED <<regVars, tokVars, connections, acts, lastCall, lockVars, listen>>

\* net.Dial succeeds; the copies start; atomic.AddInt64(&svr.connections, 1).
\* dialTok is history: the signal of the port at this moment.
DialOk(c) ==
  /\ conns[c].state = "dialing"
  /\ conns' = [conns EXCEPT ![c].state = "counted", ![c].backendOpen = TRUE,
                            ![c].dialTok = terminateSignals[conns[c].port]]
  /\ connections' = connections + 1
  /\ UNCHANGED <<regVars, tokVars, acts, lastCall, lockVars, listen>>

\* <-svr.terminateSignals[port]: the map is read here, then the receive blocks
ReadTok(c) ==
  /\ conns[c].state = "counted"
  /\ conns' = [conns EXCEPT ![c].state = "waiting",
                            ![c].tok = terminateSignals[conns[c].port]]
  /\ UNCHANGED <<regVars, tokVars, connections, acts, lastCall, lockVars, listen>>

\* the receive returns once the channel is closed; the counter is decremented,
\* the deferred client.Close() and tcpServer.Close() run and the goroutine
\* ends (its locals are gone)
Wake(c) ==
  /\ conns[c].state = "waiting"
  /\ conns[c].tok \in chanClosed[conns[c].port]
  /\ connections' = connections - 1
  /\ conns' = [conns EXCEPT ![c].state = "closed", ![c].clientOpen = FALSE,
                            ![c].backendOpen = FALSE, ![c].tok = NilChan,
                            ![c].dialTok = NilChan]
  /\ UNCHANGED <<regVars, tokVars, acts, lastCall, lockVars, listen>>

\* ---------------------------------------------------------------- requests
\* the sequences over S of length at most n
SeqsUpTo(S, n) == UNION {[1..k -> S] : k \in 0..n}

\* what the requests of the whole-program specification carry: the operator
\* configures one group of one port, and activates any port
ConfiguredPorts == {1}
DrainGroups == {"a"}
DrainServers == {<<"s1">>}
DrainWeights == {0, 1}
DrainGroupLists == {<<>>, <<"a">>}
DrainWeightLists == {<<>>, <<1>>}

\* ---------------------------------------------------------------- program
ControlStep ==
  \/ \E p \in ConfiguredPorts, g \in DrainGroups, s \in DrainServers,
        w \in DrainWeights : HandleSetGroup(p, g, s, w)
  \/ \E p \in ConfiguredPorts, g \in DrainGroups : HandleDeleteGroup(p, g)

ActivationStep ==
  \/ \E a \in ActIds, p \in Ports, gs \in DrainGroupLists, ws \in DrainWeightLists :
       ActStart(a, p, gs, ws)
  \/ \E a \in ActIds : ActRead(a)
  \/ \E a \in ActIds : ActClose(a)
  \/ \E a \in ActIds : ActInstall(a)

ProxyStep ==
  \/ \E c \in ConnIds, p \in RegisteredPorts : Accept(c, p)
  \/ \E c \in ConnIds : DialFail(c)
  \/ \E c \in ConnIds : DialOk(c)
  \/ \E c \in ConnIds : ReadTok(c)
  \/ \E c \in ConnIds : Wake(c)

Next == ControlStep \/ ActivationStep \/ ProxyStep

Spec == Init /\ [][Next]_vars

\* ---------------------------------------------------------------- registry alone
\* what the direct registry calls carry: every group, server list and weight
\* on port 1; one group on port 3, which has no table until a call makes it.
\* ParseJSON accepts any list of strings as servers, the empty string too.
RegGroups == {"a", "b"}
RegServers == {<<>>, <<"s1">>, <<"s2">>, <<"s1", "s2">>, <<"">>}
RegWeights == (0 - 1)..MaxWeight
\* (json.Unmarshal takes every finite float64 as a weight, the largest too)
\* the servers the calls give to the second group
FewServers == {<<>>, <<"s1">>}
\* the weights an activation carries: none below -1, the two largest
ActWeights == {0 - 1, 0, MaxWeight - 1, MaxWeight}

SetCalls ==
  [port : {1}, group : {"a"}, servers : RegServers,
   weight : RegWeights \cup {MaxFloat64}]
    \cup [port : {1}, group : {"b"}, servers : FewServers, weight : RegWeights]
    \cup [port : {3}, group : {"a"}, servers : {<<"s1">>}, weight : {0, 1}]

DeleteCalls == [port : {1, 3}, group : RegGroups]

ActiveCalls ==
  [port : {1}, groups : SeqsUpTo(RegGroups, MaxLen),
   weights : SeqsUpTo(ActWeights, MaxLen)]
    \cup [port : {3}, groups : {<<>>, <<"a">>}, weights : {<<>>, <<1>>}]

\* the runs one call of selectServerByWeight(p) can take on the tables pg:
\* every iteration order of the active groups, every draw, every index
SelectCalls(pg, p) ==
  IF p \notin DOMAIN pg \/ ActiveGroups(pg[p]) = {}
  THEN {[port |-> p, order |-> <<>>, k |-> 0, idx |-> 0]}
  ELSE UNION {{[port |-> p, order |-> o, k |-> k, idx |-> idx] :
                 idx \in IntnRange(pg[p], o, k)} :
              o \in Orders(ActiveGroups(pg[p])),
              k \in Draws(TotalWeight(pg[p]))}

NextReg ==
  \/ \E c \in SetCalls : CallSetGroupServers(c.port, c.group, c.servers, c.weight)
  \/ \E c \in DeleteCalls : CallDeleteGroup(c.port, c.group)
  \/ \E c \in ActiveCalls : CallSetActiveGroups(c.port, c.groups, c.weights)
  \/ \E p \in Ports : \E c \in SelectCalls(portGroups, p) :
       CallSelect(c.port, c.order, c.k, c.idx)
  \/ CallReturn

SpecReg == Init /\ [][NextReg]_vars

\* ---------------------------------------------------------------- registry lock
\* the registry methods step by step, with portGroupsMu: each method takes
\* the lock (Lock or RLock), reads or writes the registry in one or more
\* steps and releases the lock as it returns (defer)
Writers == {"setGroupServers", "deleteGroup", "setActiveGroups"}
Readers == {"select", "getGroups"}

\* what the methods in progress carry
LockGroup == "a"
LockServers == <<"s1">>
LockWeight == MaxWeight

LockGroups == <<LockGroup>>
LockWeights == <<1>>
ProcCalls ==
  {[kind |-> "setGroupServers", port |-> 1, groups |-> <<>>, weights |-> <<>>],
   [kind |-> "deleteGroup", port |-> 1, groups |-> <<>>, weights |-> <<>>],
   [kind |-> "setActiveGroups", port |-> 1, groups |-> LockGroups,
    weights |-> LockWeights],
   [kind |-> "select", port |-> 1, groups |-> <<>>, weights |-> <<>>],
   [kind |-> "select", port |-> 2, groups |-> <<>>, weights |-> <<>>],
   [kind |-> "getGroups", port |-> 1, groups |-> <<>>, weights |-> <<>>]}

\* a goroutine calls a registry method
ProcStart(i, c) ==
  /\ FirstFree(procs, i, IdleProc)
  /\ procs' = [procs EXCEPT ![i] =
                 [IdleProc EXCEPT !.kind = c.kind, !.pc = "lock", !.port = c.port,
                                  !.groups = c.groups, !.weights = c.weights]]
  /\ UNCHANGED <<regVars, tokVars, connVars, acts, lastCall, mu, listen>>

\* svr.portGroupsMu.Lock(): waits until nobody holds the mutex
Lock(i) ==
  /\ procs[i].pc = "lock" /\ procs[i].kind \in Writers
  /\ mu.w = 0 /\ mu.r = {}
  /\ mu' = [mu EXCEPT !.w = i]
  /\ procs' = [procs EXCEPT ![i].pc = IF procs[i].kind = "setActiveGroups"
                                      THEN "zero" ELSE "write",
                            ![i].before = {portGroups}]
  /\ UNCHANGED <<regVars, tokVars, connVars, acts, lastCall, listen>>

\* RLock() that does not wait for the writer
RLockNoWait(i) ==
  /\ procs[i].pc = "lock" /\ procs[i].kind \in Readers
  /\ mu' = [mu EXCEPT !.r = @ \cup {i}]
  /\ procs' = [procs EXCEPT ![i].pc = "read1"]
  /\ UNCHANGED <<regVars, tokVars, connVars, acts, lastCall, listen>>

\* svr.portGroupsMu.RLock(): waits until no writer holds the mutex
RLock(i) ==
  /\ procs[i].pc = "lock" /\ procs[i].kind \in Readers
  /\ mu.w = 0
  /\ mu' = [mu EXCEPT !.r = @ \cup {i}]
  /\ procs' = [procs EXCEPT ![i].pc = "read1"]
  /\ UNCHANGED <<regVars, tokVars, connVars, acts, lastCall, listen>>

\* the body of setGroupServers or deleteGroup
Write(i) ==
  /\ procs[i].pc = "write"
  /\ portGroups' =
       IF procs[i].kind = "setGroupServers"
       THEN setGroupServers(portGroups, procs[i].port, LockGroup, LockServers,
                            LockWeight)
       ELSE deleteGroup(portGroups, procs[i].port, LockGroup)
  /\ procs' = [procs EXCEPT ![i].pc = "unlock"]
  /\ UNCHANGED <<tokVars, connVars, acts, lastCall, mu, listen>>

\* setActiveGroups up to the end of "Set all weights to 0 for this port"
Zero(i) ==
  /\ procs[i].pc = "zero"
  /\ LET pg1 == EnsurePort(portGroups, procs[i].port)
     IN portGroups' = [pg1 EXCEPT ![procs[i].port] = ZeroWeights(@)]
  /\ procs' = [procs EXCEPT ![i].pc = "apply"]
  /\ UNCHANGED <<tokVars, connVars, acts, lastCall, mu, listen>>

\* setActiveGroups: the loop over groups
Apply(i) ==
  /\ procs[i].pc = "apply"
  /\ portGroups' = [portGroups EXCEPT ![procs[i].port] =
                      ApplyGroups(@, procs[i].groups, procs[i].weights, 1)]
  /\ procs' = [procs EXCEPT ![i].pc = "unlock"]
  /\ UNCHANGED <<tokVars, connVars, acts, lastCall, mu, listen>>

\* defer svr.portGroupsMu.Unlock()
Unlock(i) ==
  /\ procs[i].pc = "unlock"
  /\ mu' = [mu EXCEPT !.w = 0]
  /\ procs' = [procs EXCEPT ![i].pc = "done", ![i].after = {portGroups}]
  /\ UNCHANGED <<regVars, tokVars, connVars, acts, lastCall, listen>>

\* portGroup, exists := svr.portGroups[port] and the loop over it (select),
\* or the table SendJSON writes (getGroups)
Read1(i) ==
  /\ procs[i].pc = "read1"
  /\ procs' = [procs EXCEPT
                 ![i].seen1 = {IF procs[i].port \in DOMAIN portGroups
                               THEN portGroups[procs[i].port] ELSE EmptyTable},
                 ![i].pc = IF procs[i].kind = "select" THEN "read2" ELSE "runlock"]
  /\ UNCHANGED <<regVars, tokVars, connVars, acts, lastCall, mu, listen>>

\* servers := portGroup[selectedGroup].Servers: select reads the table again
Read2(i) ==
  /\ procs[i].pc = "read2"
  /\ procs' = [procs EXCEPT
                 ![i].seen2 = {IF procs[i].port \in DOMAIN portGroups
                               THEN portGroups[procs[i].port] ELSE EmptyTable},
                 ![i].pc = "runlock"]
  /\ UNCHANGED <<regVars, tokVars, connVars, acts, lastCall, mu, listen>>

\* defer svr.portGroupsMu.RUnlock()
RUnlock(i) ==
  /\ procs[i].pc = "runlock"
  /\ mu' = [mu EXCEPT !.r = @ \ {i}]
  /\ procs' = [procs EXCEPT ![i].pc = "done"]
  /\ UNCHANGED <<regVars, tokVars, connVars, acts, lastCall, listen>>

NextLock ==
  \/ \E i \in ProcIds, c \in ProcCalls : ProcStart(i, c)
  \/ \E i \in ProcIds : Lock(i)
  \/ \E i \in ProcIds : RLock(i)
  \/ \E i \in ProcIds : Write(i)
  \/ \E i \in ProcIds : Zero(i)
  \/ \E i \in ProcIds : Apply(i)
  \/ \E i \in ProcIds : Unlock(i)
  \/ \E i \in ProcIds : Read1(i)
  \/ \E i \in ProcIds : Read2(i)
  \/ \E i \in ProcIds : RUnlock(i)

SpecLock == Init /\ [][NextLock]_vars

\* ---------------------------------------------------------------- requests
\* the control-plane handlers from the request as it arrives, one request at
\* a time. A path value is a sequence of characters; a body is either not
\* parsable or gives the fields it names (a field it leaves out decodes to
\* the zero value of its type)
DigitChars == <<"0", "1", "2", "3", "4", "5", "6", "7", "8", "9">>
IsDigit(c) == \E d \in 1..10 : DigitChars[d] = c
DigitOf(c) == (CHOOSE d \in 1..10 : DigitChars[d] = c) - 1

RECURSIVE DecimalValue(_, _)
DecimalValue(s, n) ==
  IF n = 0 THEN 0 ELSE DecimalValue(s, n - 1) * 10 + DigitOf(s[n])

\* strconv.Atoi: an optional sign and at least one decimal digit
Atoi(s) ==
  LET signed == s # <<>> /\ s[1] \in {"+", "-"}
      digits == IF signed THEN Tail(s) ELSE s
  IN IF digits = <<>> \/ \E i \in 1..Len(digits) : ~IsDigit(digits[i])
     THEN [err |-> TRUE, val |-> 0]
     ELSE [err |-> FALSE,
           val |-> IF s[1] = "-" THEN 0 - DecimalValue(digits, Len(digits))
                   ELSE DecimalValue(digits, Len(digits))]

\* a parsePort that reports no error
parsePortLenient(portStr) == [err |-> FALSE, val |-> Atoi(portStr).val]

\* parsePort: the error of Atoi, or the port
parsePort(portStr) == Atoi(portStr)

\* a field of a body: {} when the body leaves it out, {v} when it gives v
FieldOr(field, zero) == IF field = {} THEN zero ELSE CHOOSE v \in field : TRUE

\* errhandler.ParseJSON into setGroupRequest
ParseSetGroup(body) ==
  [err |-> ~body.parsable,
   Name |-> FieldOr(body.name, ""),
   Servers |-> FieldOr(body.servers, <<>>),
   Weight |-> FieldOr(body.weight, 0)]

\* errhandler.ParseJSON into activationRequest
ParseActivation(body) ==
  [err |-> ~body.parsable,
   Groups |-> FieldOr(body.groups, <<>>),
   Weights |-> FieldOr(body.weights, <<>>)]

\* the JSON of a table: group has the tags weight and servers
EncodeTable(t) ==
  [g \in DOMAIN t |-> [weight |-> t[g].Weight, servers |-> t[g].Servers]]

StatusOK == 200
StatusBadRequest == 400
StatusUnprocessableEntity == 422
\* the handler panicked: net/http recovers and drops the connection
StatusNone == 0

NoResponse == [g \in {} |-> [weight |-> 0, servers |-> <<>>]]

Served(handler, portStr, body, status, response) ==
  [op |-> "http", handler |-> handler, portStr |-> portStr, body |-> body,
   status |-> status, response |-> response]

NoBody == [parsable |-> TRUE]

\* GET /ports/{port}/groups that makes the table of a port it does not find
ServeGetGroupsCreates(portStr) ==
  /\ lastCall = NoCall
  /\ LET port == parsePort(portStr)
     IN IF port.err
        THEN /\ lastCall' = Served("getGroups", portStr, NoBody,
                                   StatusBadRequest, NoResponse)
             /\ UNCHANGED regVars
        ELSE /\ portGroups' = EnsurePort(portGroups, port.val)
             /\ lastCall' = Served("getGroups", portStr, NoBody, StatusOK,
                                   EncodeTable(portGroups'[port.val]))
  /\ UNCHANGED <<tokVars, connVars, acts, lockVars, listen>>

\* GET /ports/{port}/groups
ServeGetGroups(portStr) ==
  /\ lastCall = NoCall
  /\ LET port == parsePort(portStr)
     IN lastCall' =
          IF port.err
          THEN Served("getGroups", portStr, NoBody, StatusBadRequest, NoResponse)
          ELSE IF port.val \notin DOMAIN portGroups
          THEN Served("getGroups", portStr, NoBody, StatusOK,
                      EncodeTable(EmptyTable))
          ELSE Served("getGroups", portStr, NoBody, StatusOK,
                      EncodeTable(portGroups[port.val]))
  /\ UNCHANGED <<regVars, tokVars, connVars, acts, lockVars, listen>>

\* POST /ports/{port}/groups
ServeSetGroup(portStr, body) ==
  /\ lastCall = NoCall
  /\ LET port == parsePort(portStr)
         req == ParseSetGroup(body)
     IN IF port.err
        THEN /\ lastCall' = Served("setGroup", portStr, body,
                                   StatusBadRequest, NoResponse)
             /\ UNCHANGED regVars
        ELSE IF req.err
        THEN /\ lastCall' = Served("setGroup", portStr, body,
                                   StatusUnprocessableEntity, NoResponse)
             /\ UNCHANGED regVars
        ELSE /\ portGroups' = setGroupServers(portGroups, port.val, req.Name,
                                              req.Servers, req.Weight)
             /\ lastCall' = Served("setGroup", portStr, body, StatusOK,
                                   NoResponse)
  /\ UNCHANGED <<tokVars, connVars, acts, lockVars, listen>>

\* DELETE /ports/{port}/groups/{group}
ServeDeleteGroup(portStr, g) ==
  /\ lastCall = NoCall
  /\ LET port == parsePort(portStr)
         body == [parsable |-> TRUE, group |-> g]
     IN IF port.err
        THEN /\ lastCall' = Served("deleteGroup", portStr, body,
                                   StatusBadRequest, NoResponse)
             /\ UNCHANGED regVars
        ELSE /\ portGroups' = deleteGroup(portGroups, port.val, g)
             /\ lastCall' = Served("deleteGroup", portStr, body, StatusOK,
                                   NoResponse)
  /\ UNCHANGED <<tokVars, connVars, acts, lockVars, listen>>

\* POST /ports/{port}/activate: setActiveGroups, then the close and the
\* make of the signal of the port
ServeActivation(portStr, body) ==
  /\ lastCall = NoCall
  /\ LET port == parsePort(portStr)
         req == ParseActivation(body)
         p == port.val
     IN IF port.err
        THEN /\ lastCall' = Served("activate", portStr, body,
                                   StatusBadRequest, NoResponse)
             /\ UNCHANGED <<regVars, tokVars>>
        ELSE IF req.err
        THEN /\ lastCall' = Served("activate", portStr, body,
                                   StatusUnprocessableEntity, NoResponse)
             /\ UNCHANGED <<regVars, tokVars>>
        ELSE /\ p \in DOMAIN terminateSignals => chanMade[p] <= MaxGoroutines
             /\ portGroups' = setActiveGroups(portGroups, p, req.Groups,
                                             req.Weights)
             /\ IF \/ p \notin DOMAIN terminateSignals
                   \/ terminateSignals[p] \in chanClosed[p]
                THEN /\ lastCall' = Served("activate", portStr, body,
                                           StatusNone, NoResponse)
                     /\ UNCHANGED tokVars
                ELSE /\ chanClosed' = [chanClosed EXCEPT ![p] =
                                        @ \cup {terminateSignals[p]}]
                     /\ chanMade' = [chanMade EXCEPT ![p] = @ + 1]
                     /\ terminateSignals' =
                          [terminateSignals EXCEPT ![p] = chanMade[p] + 1]
                     /\ lastCall' = Served("activate", portStr, body,
                                           StatusOK, NoResponse)
  /\ UNCHANGED <<connVars, acts, lockVars, listen>>

\* what the requests carry
PortStrs == {<<"1">>, <<"3">>, <<"+", "1">>, <<"x">>, <<>>, <<"1", ".", "0">>}
HttpGroups == {"primary", "standby"}
ServersFor(g) == IF g = "primary" THEN <<"s1">> ELSE <<"s2">>
SetBodies ==
  {[parsable |-> FALSE, name |-> {}, servers |-> {}, weight |-> {}]}
    \cup {[parsable |-> TRUE, name |-> {g}, servers |-> {ServersFor(g)},
           weight |-> w] : g \in HttpGroups, w \in {{}, {MaxWeight}}}
ActivationBodies ==
  {[parsable |-> FALSE, groups |-> {}, weights |-> {}]}
    \cup {[parsable |-> TRUE, groups |-> {<<g>>}, weights |-> {<<MaxWeight>>}] :
            g \in HttpGroups}
    \cup {[parsable |-> TRUE, groups |-> {<<>>}, weights |-> {}]}

NextHttp ==
  \/ \E s \in PortStrs : ServeGetGroups(s)
  \/ \E s \in PortStrs, b \in SetBodies : ServeSetGroup(s, b)
  \/ \E s \in PortStrs, g \in HttpGroups : ServeDeleteGroup(s, g)
  \/ \E s \in PortStrs, b \in ActivationBodies : ServeActivation(s, b)
  \/ CallReturn

SpecHttp == Init /\ [][NextHttp]_vars

\* ---------------------------------------------------------------- end of stream
\* the peer of a spliced connection closes its end or the socket fails: the
\* two io.Copy goroutines return; they close nothing and tell nobody
SocketEOF(c) ==
  /\ conns[c].state \in {"counted", "waiting"}
  /\ ~conns[c].eof
  /\ conns' = [conns EXCEPT ![c].eof = TRUE]
  /\ UNCHANGED <<regVars, tokVars, connections, acts, lastCall, lockVars, listen>>

NextEof == Next \/ \E c \in ConnIds : SocketEOF(c)

\* the whole program with peers that end their streams
SpecEof == Init /\ [][NextEof]_vars

\* ---------------------------------------------------------------- accept errors
\* an error value: its dynamic type and its message
ClosedMsg == "use of closed network connection"
OtherMsg == "too many open files"
OpError(msg) == [type |-> "*net.OpError", msg |-> msg]

\* fmt.Errorf("accepting client connection: %w", err): a new error value
\* that wraps err
Wrapped(err) == [type |-> "*fmt.wrapError", msg |-> err.msg]

\* opErr, ok := err.(*net.OpError); ok && opErr.Err.Error() == "use of
\* closed network connection"
IsListenerClosed(err) == err.type = "*net.OpError" /\ err.msg = ClosedMsg

\* the errors listener.Accept can return
AcceptErrors(l) == IF l.open THEN {OpError(OtherMsg), OpError(ClosedMsg)}
                   ELSE {OpError(ClosedMsg)}

\* one turn of the loop of PortListen in which listener.Accept fails: accept
\* returns the wrapped error, PortListen returns nil if it is the closed
\* listener's error and logs it and loops otherwise. The closed-listener
\* error tells that the listener is closed.
AcceptFails(p, e) ==
  /\ listen[p].state = "accepting"
  /\ e \in AcceptErrors(listen[p])
  /\ listen' = [listen EXCEPT
                  ![p] = [open |-> listen[p].open /\ e.msg # ClosedMsg,
                          state |-> IF IsListenerClosed(Wrapped(e)) THEN "returned"
                                    ELSE "accepting",
                          lastErr |-> e.msg]]
  /\ UNCHANGED <<regVars, tokVars, connVars, acts, lastCall, lockVars>>

NextListen ==
  \/ Next
  \/ \E p \in ConfiguredPorts, e \in {OpError(OtherMsg), OpError(ClosedMsg)} :
       AcceptFails(p, e)

\* the whole program with listeners whose accept can fail
SpecListen == Init /\ [][NextListen]_vars

\* the goroutine of a handler that can run does run
FairSpec == Spec /\ \A c \in ConnIds : WF_vars(Wake(c))

\* ---------------------------------------------------------------- claims
\* the table of a port, empty when the port has none
TableOf(pg, p) == IF p \in DOMAIN pg THEN pg[p] ELSE EmptyTable

\* handler c is blocked in the receive
Waiting(c) == conns[c].state = "waiting"

\* C1: once the signal of a port has been advanced past the one a blocked
\* handler waits on, the handler wakes up, closes its client and its backend
\* connection and exits; the step that ends its wait decrements the counter.
C1_ForceCloseOnAdvance ==
  /\ \A c \in ConnIds :
       (Waiting(c) /\ conns[c].tok # terminateSignals[conns[c].port])
         ~> (conns[c].state = "closed" /\ ~conns[c].clientOpen
               /\ ~conns[c].backendOpen)
  /\ [][\A c \in ConnIds :
          (Waiting(c) /\ ~Waiting(c)') =>
            /\ conns[c].tok \in chanClosed[conns[c].port]
            /\ conns'[c].state = "closed"
            /\ ~conns'[c].clientOpen /\ ~conns'[c].backendOpen
            /\ connections' = connections - 1]_vars

\* a handler has been closed by an advance of its port
C1_Witness ==
  \E c \in ConnIds :
    /\ conns[c].state = "closed"
    /\ terminateSignals[conns[c].port] = 2
    /\ connections = 0

\* C2: a handler waits on the signal that was current when its dial
\* succeeded (so an advance after the dial closes it).
C2_TokenCapturedAtDial ==
  \A c \in ConnIds : Waiting(c) => conns[c].tok = conns[c].dialTok

\* C3: a handler blocked on an open signal stays blocked with its sockets
\* open in every step, and its signal is closed by no step but the close of
\* an activation of its own port.
C3_StaysOpenUntilNextAdvance ==
  [][\A c \in ConnIds :
       (Waiting(c) /\ conns[c].tok \notin chanClosed[conns[c].port]) =>
         /\ conns'[c] = conns[c]
         /\ conns[c].clientOpen /\ conns[c].backendOpen
         /\ conns[c].tok \in chanClosed'[conns[c].port] =>
              \E a \in ActIds : /\ acts[a].port = conns[c].port
                                /\ acts[a].pc = "close"
                                /\ acts'[a].pc = "install"]_vars

\* a handler that began to wait after an advance of port 1 is still blocked
\* after port 2 was advanced and its group was deleted
C3_Witness ==
  \E c \in ConnIds :
    /\ Waiting(c) /\ conns[c].port = 1
    /\ conns[c].tok = 2 /\ 2 \notin chanClosed[1]
    /\ terminateSignals[2] = 2
    /\ "a" \notin DOMAIN portGroups[1]

\* C4: no activation request that has applied setActiveGroups ends without
\* advancing the signal of its port.
C4_EveryActivationAdvances ==
  \A a \in ActIds : acts[a].pc # "panicked"

\* C5: the step that returns from an activation of port p leaves p with a
\* signal that was never current before and is open, and with every earlier
\* signal of p closed.
C5_FreshOpenToken ==
  [][\A a \in ActIds :
       (acts[a].pc = "install" /\ acts'[a].pc = "done") =>
         LET p == acts[a].port
         IN /\ terminateSignals'[p] \notin 1..chanMade[p]
            /\ terminateSignals'[p] # terminateSignals[p]
            /\ terminateSignals'[p] \notin chanClosed'[p]
            /\ terminateSignals[p] \in chanClosed'[p]
            /\ \A n \in 1..chanMade[p] : n \in chanClosed'[p]]_vars

\* an activation of port 1 has returned
C5_Witness ==
  \E a \in ActIds :
    /\ acts[a].pc = "done" /\ acts[a].port = 1
    /\ terminateSignals[1] = 2 /\ chanClosed[1] = {1}

\* C6: no activation closes a signal that is already closed.
C6_NoDoubleClose ==
  \A a \in ActIds : ~(acts[a].pc = "panicked" /\ acts[a].ch # NilChan)

\* C7: no handler reads the signal of its port while an activation of that
\* port is between its close and the store of the new channel.
C7_NoReadDuringSwap ==
  [][\A c \in ConnIds :
       (conns[c].state = "counted" /\ Waiting(c)') =>
         ~\E a \in ActIds : /\ acts[a].pc = "install"
                            /\ acts[a].port = conns[c].port]_vars

\* the arguments of the registry call a step makes
IsCall(c, op) == c.op = op

\* C8: setGroupServers on an existing group replaces its servers, replaces
\* its weight only by a weight > 0, and changes no other group of any port.
C8_UpdateExistingGroup ==
  [][LET c == lastCall'
     IN (/\ IsCall(c, "setGroupServers")
         /\ c.port \in DOMAIN portGroups
         /\ c.group \in DOMAIN portGroups[c.port]) =>
          /\ portGroups'[c.port][c.group].Servers = c.servers
          /\ portGroups'[c.port][c.group].Weight =
               IF c.weight > 0 THEN c.weight
               ELSE portGroups[c.port][c.group].Weight
          /\ DOMAIN portGroups' = DOMAIN portGroups
          /\ \A q \in DOMAIN portGroups :
               /\ DOMAIN portGroups'[q] = DOMAIN portGroups[q]
               /\ \A h \in DOMAIN portGroups[q] :
                    (q # c.port \/ h # c.group) =>
                      portGroups'[q][h] = portGroups[q][h]]_vars

\* an update with weight 0 has kept the weight and replaced the servers
C8_Witness ==
  /\ IsCall(lastCall, "setGroupServers")
  /\ lastCall.port = 1 /\ lastCall.weight = 0 /\ lastCall.servers = <<"s2">>
  /\ lastCall.group \in DOMAIN portGroups[1]
  /\ portGroups[1][lastCall.group] = [Weight |-> 2, Servers |-> <<"s2">>]

\* C9: setGroupServers on a group that does not exist creates it with the
\* weight and servers of the call; on a port without a table the table
\* holds exactly that group afterwards.
C9_CreateGroup ==
  [][LET c == lastCall'
     IN (/\ IsCall(c, "setGroupServers")
         /\ c.group \notin DOMAIN TableOf(portGroups, c.port)) =>
          /\ c.port \in DOMAIN portGroups'
          /\ DOMAIN portGroups'[c.port] =
               DOMAIN TableOf(portGroups, c.port) \cup {c.group}
          /\ portGroups'[c.port][c.group] =
               [Weight |-> c.weight, Servers |-> c.servers]
          /\ c.port \notin DOMAIN portGroups =>
               DOMAIN portGroups'[c.port] = {c.group}]_vars

\* a group was created with weight 0 on a port that had no table
C9_Witness ==
  /\ IsCall(lastCall, "setGroupServers")
  /\ lastCall.port = 3 /\ lastCall.weight = 0
  /\ 3 \in DOMAIN portGroups
  /\ DOMAIN portGroups[3] = {"a"}
  /\ portGroups[3]["a"] = [Weight |-> 0, Servers |-> <<"s1">>]

\* group g is named at an index that has a weight > 0
NamedPositive(names, weights, g) ==
  \E i \in 1..Len(names) : names[i] = g /\ i <= Len(weights) /\ weights[i] > 0

\* the last index that names g with a weight > 0
LastPositive(names, weights, g) ==
  CHOOSE i \in 1..Len(names) :
    /\ names[i] = g /\ i <= Len(weights) /\ weights[i] > 0
    /\ \A j \in (i + 1)..Len(names) :
         ~(names[j] = g /\ j <= Len(weights) /\ weights[j] > 0)

\* what C10 says of every setActiveGroups but the weight of the named groups
C10_Frame(c, t, t2) ==
  /\ DOMAIN t2 = DOMAIN t
  /\ \A g \in DOMAIN t : t2[g].Servers = t[g].Servers
  /\ \A g \in DOMAIN t :
       ~NamedPositive(c.groups, c.weights, g) => t2[g].Weight = 0

\* C10 as stated: after setActiveGroups the names and servers are as before,
\* a group not named with a positive weight has weight 0, and a group named
\* at index i with weights[i] > 0 has weight weights[i].
C10_Original ==
  [][LET c == lastCall'
     IN IsCall(c, "setActiveGroups") =>
          LET t == TableOf(portGroups, c.port)
              t2 == portGroups'[c.port]
          IN /\ C10_Frame(c, t, t2)
             /\ \A i \in 1..Len(c.groups) :
                  (c.groups[i] \in DOMAIN t /\ i <= Len(c.weights)
                     /\ c.weights[i] > 0) =>
                    t2[c.groups[i]].Weight = c.weights[i]]_vars

\* C10 (amended): ... and a group named with a positive weight has the
\* weight of the last index that names it with a positive weight.
C10_LastPositiveWins ==
  [][LET c == lastCall'
     IN IsCall(c, "setActiveGroups") =>
          LET t == TableOf(portGroups, c.port)
              t2 == portGroups'[c.port]
          IN /\ C10_Frame(c, t, t2)
             /\ \A g \in DOMAIN t :
                  NamedPositive(c.groups, c.weights, g) =>
                    t2[g].Weight =
                      c.weights[LastPositive(c.groups, c.weights, g)]]_vars

\* a group named twice has the later weight; the other group was zeroed and
\* kept its servers
C10_Witness ==
  /\ IsCall(lastCall, "setActiveGroups")
  /\ lastCall.port = 1
  /\ lastCall.groups = <<"a", "a">> /\ lastCall.weights = <<1, 2>>
  /\ DOMAIN portGroups[1] = {"a", "b"}
  /\ portGroups[1]["a"].Weight = 2
  /\ portGroups[1]["b"] = [Weight |-> 0, Servers |-> <<"s1">>]

\* the weights the loop of setActiveGroups uses for the names: one per name,
\* 0 where the request has none, the weights past the last name dropped
NormWeights(groups, weights) ==
  [i \in 1..Len(groups) |-> IF i <= Len(weights) THEN weights[i] ELSE 0]

\* the lists of a setActiveGroups call have different lengths
Mismatched(c) == Len(c.groups) # Len(c.weights)

\* C11 as stated: setActiveGroups with lists of different lengths acts as
\* the call with one weight per name (0 for a name without a weight, the
\* weights without a name dropped), and the group of a name without a
\* weight ends with weight 0.
C11_Original ==
  [][LET c == lastCall'
     IN (IsCall(c, "setActiveGroups") /\ Mismatched(c)) =>
          LET t == TableOf(portGroups, c.port)
              t2 == portGroups'[c.port]
          IN /\ portGroups' = setActiveGroups(portGroups, c.port, c.groups,
                                              NormWeights(c.groups, c.weights))
             /\ \A i \in 1..Len(c.groups) :
                  (i > Len(c.weights) /\ c.groups[i] \in DOMAIN t) =>
                    t2[c.groups[i]].Weight = 0]_vars

\* C11 (amended): ... and the group of a name without a weight ends with
\* weight 0 unless the same name also stands at an index with a weight > 0.
C11_MismatchedLengths ==
  [][LET c == lastCall'
     IN (IsCall(c, "setActiveGroups") /\ Mismatched(c)) =>
          LET t == TableOf(portGroups, c.port)
              t2 == portGroups'[c.port]
          IN /\ portGroups' = setActiveGroups(portGroups, c.port, c.groups,
                                              NormWeights(c.groups, c.weights))
             /\ \A i \in 1..Len(c.groups) :
                  (/\ i > Len(c.weights) /\ c.groups[i] \in DOMAIN t
                   /\ ~NamedPositive(c.groups, c.weights, c.groups[i])) =>
                    t2[c.groups[i]].Weight = 0]_vars

\* two names and one weight: the second group, which has servers, is left
\* with weight 0
C11_Witness ==
  /\ IsCall(lastCall, "setActiveGroups")
  /\ lastCall.port = 1
  /\ lastCall.groups = <<"a", "b">> /\ lastCall.weights = <<2>>
  /\ DOMAIN portGroups[1] = {"a", "b"}
  /\ portGroups[1]["a"].Weight = 2
  /\ portGroups[1]["b"] = [Weight |-> 0, Servers |-> <<"s1">>]

\* a setActiveGroups call names a group the table of its port does not have
NamesUnknown(c, t) == \E i \in 1..Len(c.groups) : c.groups[i] \notin DOMAIN t

\* C12: setActiveGroups with names that are not groups of the port creates
\* no group, still zeroes every group it does not name with a weight > 0 and
\* keeps the servers; on a port without a table it makes an empty table for
\* that port and changes no other port.
C12_UnknownNamesIgnored ==
  [][LET c == lastCall'
     IN IsCall(c, "setActiveGroups") =>
          LET t == TableOf(portGroups, c.port)
              t2 == portGroups'[c.port]
          IN /\ NamesUnknown(c, t) =>
                  /\ DOMAIN t2 = DOMAIN t
                  /\ \A g \in DOMAIN t :
                       /\ t2[g].Servers = t[g].Servers
                       /\ ~NamedPositive(c.groups, c.weights, g) =>
                            t2[g].Weight = 0
             /\ c.port \notin DOMAIN portGroups =>
                  /\ DOMAIN portGroups' = DOMAIN portGroups \cup {c.port}
                  /\ t2 = EmptyTable
                  /\ \A q \in DOMAIN portGroups :
                       portGroups'[q] = portGroups[q]]_vars

\* an activation naming a group with a weight > 0 on a port without a table
\* has left the port with an empty table
C12_Witness ==
  /\ IsCall(lastCall, "setActiveGroups")
  /\ lastCall.port = 3
  /\ lastCall.groups = <<"a">> /\ lastCall.weights = <<1>>
  /\ 3 \in DOMAIN portGroups
  /\ portGroups[3] = EmptyTable

\* the table has a group that can take traffic
HasLive(t) == \E g \in DOMAIN t : t[g].Weight > 0 /\ t[g].Servers # <<>>

\* C13: setActiveGroups with no names leaves every group of the port with
\* weight 0 and its servers; as long as no group of the port has a weight
\* > 0 and a server, every select of the port returns ""; and the only
\* steps that end this are a setGroupServers of that port and a
\* setActiveGroups of that port carrying a weight > 0.
C13_FullDrain ==
  [][LET c == lastCall'
     IN /\ (IsCall(c, "setActiveGroups") /\ c.groups = <<>>) =>
             LET t == TableOf(portGroups, c.port)
                 t2 == portGroups'[c.port]
             IN /\ DOMAIN t2 = DOMAIN t
                /\ \A g \in DOMAIN t :
                     t2[g] = [Weight |-> 0, Servers |-> t[g].Servers]
                /\ ~HasLive(t2)
        /\ (IsCall(c, "select") /\ ~HasLive(TableOf(portGroups, c.port))) =>
             c.result = ""
        /\ \A p \in Ports :
             (~HasLive(TableOf(portGroups, p)) /\ HasLive(TableOf(portGroups', p))) =>
               \/ IsCall(c, "setGroupServers") /\ c.port = p
                    /\ c.servers # <<>>
                    /\ (c.weight > 0 \/ c.group \in DOMAIN TableOf(portGroups, p))
               \/ IsCall(c, "setActiveGroups") /\ c.port = p
                    /\ \E i \in 1..Len(c.weights) : c.weights[i] > 0]_vars

\* a select of a port whose two groups have servers and weight 0 has
\* returned ""
C13_Witness ==
  /\ IsCall(lastCall, "select")
  /\ lastCall.port = 1 /\ lastCall.result = ""
  /\ DOMAIN portGroups[1] = {"a", "b"}
  /\ portGroups[1]["a"] = [Weight |-> 0, Servers |-> <<"s1", "s2">>]
  /\ portGroups[1]["b"] = [Weight |-> 0, Servers |-> <<"s1">>]

\* the elements of a sequence
Range(s) == {s[i] : i \in DOMAIN s}

\* what the runs of select(p) that pick group g return
ReturnedFor(pg, p, g) ==
  LET t == pg[p]
      runs == {x \in Orders(ActiveGroups(t)) \X Draws(TotalWeight(t)) :
                 SelectGroup(t, x[1], x[2], 1) = g}
  IN UNION {{selectServerByWeight(pg, p, x[1], x[2], idx) :
               idx \in IntnRange(t, x[1], x[2])} : x \in runs}

\* the step is a setGroupServers or a deleteGroup of group g of port p
Resupplies(c, p, g) ==
  /\ IsCall(c, "setGroupServers") \/ IsCall(c, "deleteGroup")
  /\ c.port = p /\ c.group = g

\* C14: a group keeps its servers through every step that is not a
\* setGroupServers or deleteGroup of it, whatever its weight; a
\* setActiveGroups that names it with a weight > 0 leaves it with a weight
\* > 0 and the same servers S, active when S is not empty; and the selects
\* that pick an active group return exactly the members of its server list.
C14_ServersRetained ==
  /\ [](\A p \in DOMAIN portGroups : \A g \in ActiveGroups(portGroups[p]) :
          ReturnedFor(portGroups, p, g) = Range(portGroups[p][g].Servers))
  /\ [][LET c == lastCall'
        IN \A p \in DOMAIN portGroups : \A g \in DOMAIN portGroups[p] :
             LET S == portGroups[p][g].Servers
             IN /\ ~Resupplies(c, p, g) =>
                     /\ g \in DOMAIN portGroups'[p]
                     /\ portGroups'[p][g].Servers = S
                /\ (/\ IsCall(c, "setActiveGroups") /\ c.port = p
                    /\ NamedPositive(c.groups, c.weights, g)) =>
                     /\ portGroups'[p][g].Weight > 0
                     /\ portGroups'[p][g].Servers = S
                     /\ S # <<>> => g \in ActiveGroups(portGroups'[p])]_vars

\* an activation has named a with a weight > 0: a is active with its two
\* servers while b, with weight 0, still has its server
C14_Witness ==
  /\ IsCall(lastCall, "setActiveGroups")
  /\ lastCall.port = 1
  /\ lastCall.groups = <<"a">> /\ lastCall.weights = <<1>>
  /\ DOMAIN portGroups[1] = {"a", "b"}
  /\ portGroups[1]["a"] = [Weight |-> 1, Servers |-> <<"s1", "s2">>]
  /\ portGroups[1]["b"] = [Weight |-> 0, Servers |-> <<"s1">>]
  /\ ReturnedFor(portGroups, 1, "a") = {"s1", "s2"}

\* C15: deleteGroup removes the named group from the table of the port and
\* nothing else; when the port has no table or the table does not have the
\* group it changes nothing (and makes no table for the port).
C15_DeleteGroup ==
  [][LET c == lastCall'
     IN IsCall(c, "deleteGroup") =>
          IF c.port \in DOMAIN portGroups
               /\ c.group \in DOMAIN portGroups[c.port]
          THEN /\ DOMAIN portGroups' = DOMAIN portGroups
               /\ DOMAIN portGroups'[c.port] =
                    DOMAIN portGroups[c.port] \ {c.group}
               /\ \A h \in DOMAIN portGroups'[c.port] :
                    portGroups'[c.port][h] = portGroups[c.port][h]
               /\ \A q \in DOMAIN portGroups \ {c.port} :
                    portGroups'[q] = portGroups[q]
          ELSE portGroups' = portGroups]_vars

\* group a of port 1 has been deleted and group b is as it was set
C15_Witness ==
  /\ IsCall(lastCall, "deleteGroup")
  /\ lastCall.port = 1 /\ lastCall.group = "a"
  /\ DOMAIN portGroups[1] = {"b"}
  /\ portGroups[1]["b"] = [Weight |-> 2, Servers |-> <<"s1">>]

\* the step is a call of one of the three methods that write the registry
IsWrite(c) ==
  \/ IsCall(c, "setGroupServers") \/ IsCall(c, "deleteGroup")
  \/ IsCall(c, "setActiveGroups")

\* the servers of the groups of a table
ServersOf(t) == UNION {Range(t[g].Servers) : g \in DOMAIN t}

\* C16: a setGroupServers, deleteGroup or setActiveGroups of port P leaves
\* every other port with the table it had (or with none, if it had none);
\* a select of port Q that returns, returns "" or a server of a group of Q,
\* and every select ends as it would if Q's table were the only one.
C16_PortIsolation ==
  [][LET c == lastCall'
     IN /\ IsWrite(c) =>
             \A q \in Ports \ {c.port} :
               /\ q \in DOMAIN portGroups' <=> q \in DOMAIN portGroups
               /\ q \in DOMAIN portGroups => portGroups'[q] = portGroups[q]
        /\ IsCall(c, "select") =>
             /\ \/ c.result \in {"", FatalExit}
                \/ c.result \in ServersOf(TableOf(portGroups, c.port))
             /\ c.port \in DOMAIN portGroups =>
                  c.result = selectServerByWeight(
                               [q \in {c.port} |-> portGroups[c.port]],
                               c.port, c.order, c.k, c.idx)]_vars

\* ports 1 and 3 both have a group a; the select of port 3 returned the
\* server of its own a
C16_Witness ==
  /\ IsCall(lastCall, "select")
  /\ lastCall.port = 3 /\ lastCall.result = "s1"
  /\ portGroups[3] = [g \in {"a"} |-> [Weight |-> 1, Servers |-> <<"s1">>]]
  /\ "a" \in DOMAIN portGroups[1]
  /\ portGroups[1]["a"] = [Weight |-> 2, Servers |-> <<"s2">>]

\* C17: select(port) returns "" exactly when the port has no table or no
\* group with weight > 0 and a server; otherwise it returns an address.
C17_NoneIffNoActive ==
  [][LET c == lastCall'
     IN IsCall(c, "select") =>
          LET t == TableOf(portGroups, c.port)
          IN /\ c.result = "" <=> ~HasLive(t)
             /\ HasLive(t) => c.result \in ServersOf(t)]_vars

\* C18: when the port has a group with weight > 0 and a server, the group
\* picked by a select that returns has weight > 0 and a server, and the
\* select returns a member of the server list of that group: no server is
\* returned on behalf of a group with weight 0 or without servers.
C18_ReturnedFromActiveGroup ==
  [][LET c == lastCall'
     IN IsCall(c, "select") =>
          LET t == TableOf(portGroups, c.port)
              g == SelectGroup(t, c.order, c.k, 1)
          IN /\ (HasLive(t) /\ c.result # FatalExit) =>
                  /\ g \in DOMAIN t
                  /\ t[g].Weight > 0 /\ t[g].Servers # <<>>
                  /\ c.result \in Range(t[g].Servers)
             /\ c.result \notin {"", FatalExit} =>
                  \E h \in DOMAIN t :
                    /\ t[h].Weight > 0 /\ t[h].Servers # <<>>
                    /\ c.result \in Range(t[h].Servers)]_vars

\* a select has returned the second server of the active group a while b,
\* with weight 0, has a server of its own
C18_Witness ==
  /\ IsCall(lastCall, "select")
  /\ lastCall.port = 1 /\ lastCall.result = "s2" /\ lastCall.idx = 1
  /\ DOMAIN portGroups[1] = {"a", "b"}
  /\ portGroups[1]["a"] = [Weight |-> 2, Servers |-> <<"s1", "s2">>]
  /\ portGroups[1]["b"] = [Weight |-> 0, Servers |-> <<"s1">>]

\* C19: for every table with a group of weight > 0 that has a server, every
\* iteration order of the active groups and every draw rand.Float64() *
\* totalWeight can give, the cumulative-weight loop picks a group, an active
\* one, so neither Fatal branch is taken.
C19_SelectionSucceeds ==
  \A p \in DOMAIN portGroups :
    LET t == portGroups[p]
    IN HasLive(t) =>
         \A o \in Orders(ActiveGroups(t)), k \in Draws(TotalWeight(t)) :
           /\ SelectGroup(t, o, k, 1) \in ActiveGroups(t)
           /\ \A idx \in IntnRange(t, o, k) :
                selectServerByWeight(portGroups, p, o, k, idx) # FatalExit

\* the draws of a select of table t, iterated in order o, that pick group g
DrawsFor(t, o, g) ==
  {k \in Draws(TotalWeight(t)) : SelectGroup(t, o, k, 1) = g}

C21_NeverTerminates == ~Exited

\* the step accepts a client into slot c
Accepts(c) == conns[c] = FreeConn /\ conns'[c] # FreeConn

\* C22: an accept whose select returns "" closes the client and starts no
\* handler: the client is refused exactly when select returns "", the step
\* changes neither the counter, the registry, the signals nor any request,
\* and no later step touches the refused client.
C22_NoRoute ==
  [][\A c \in ConnIds :
       /\ Accepts(c) =>
            /\ conns'[c].state = "refused" <=>
                 "" \in SelectOutcomes(portGroups, conns'[c].port)
            /\ conns'[c].state = "refused" =>
                 /\ ~conns'[c].clientOpen /\ ~conns'[c].backendOpen
                 /\ conns'[c].server = ""
                 /\ connections' = connections
                 /\ portGroups' = portGroups
                 /\ UNCHANGED tokVars
                 /\ acts' = acts
       /\ conns[c].state = "refused" => conns'[c] = conns[c]]_vars

\* two clients in a row were refused on port 1, whose group has a server
\* and weight 0; nothing is counted
C22_Witness ==
  /\ conns[1].state = "refused" /\ conns[1].port = 1
  /\ conns[2].state = "refused" /\ conns[2].port = 1
  /\ ~conns[1].clientOpen /\ ~conns[2].clientOpen
  /\ "a" \in DOMAIN portGroups[1]
  /\ portGroups[1]["a"] = [Weight |-> 0, Servers |-> <<"s1">>]
  /\ connections = 0

\* C23: a handler whose dial failed has closed its client, is not counted
\* and has ended.
C23_DialFailureClosesClient ==
  \A c \in ConnIds :
    conns[c].state = "dialfail" =>
      /\ ~conns[c].clientOpen /\ ~conns[c].backendOpen
      /\ conns[c].tok = NilChan

\* C24: every group of every port has a weight >= 0.
C24_WeightNeverNegative ==
  \A p \in DOMAIN portGroups : \A g \in DOMAIN portGroups[p] :
    portGroups[p][g].Weight >= 0

\* the methods that hold portGroupsMu
Holders == (IF mu.w = 0 THEN {} ELSE {mu.w}) \cup mu.r

\* the holders that keep method i waiting for the mutex
BlockedBy(i) ==
  IF procs[i].pc # "lock" THEN {}
  ELSE IF procs[i].kind \in Writers THEN Holders \ {i}
  ELSE {j \in Holders : j = mu.w}

\* C25: a registry method (select, read or mutation) that waits for the lock
\* waits only for methods working on its own port; a method in progress on
\* another port never blocks it.
C25_PerPortLocking ==
  \A i \in ProcIds : \A j \in BlockedBy(i) : procs[j].port = procs[i].port

\* the tables of port p that a completed mutation left, and the one New made
CommittedTables(p) ==
  {EmptyTable} \cup {TableOf(r, p) : r \in UNION {procs[j].after : j \in ProcIds}}

\* C26: what select and the read accessor read of their port's table is a
\* table that New or a completed mutation left, and the same table at both
\* reads of select; a completed setActiveGroups left the registry it found
\* with its whole effect applied.
C26_SnapshotOrNothing ==
  /\ \A i \in ProcIds :
       procs[i].kind \in Readers =>
         /\ procs[i].seen1 \subseteq CommittedTables(procs[i].port)
         /\ procs[i].seen2 # {} => procs[i].seen2 = procs[i].seen1
  /\ \A i \in ProcIds :
       (procs[i].kind = "setActiveGroups" /\ procs[i].pc = "done") =>
         procs[i].after = {setActiveGroups(b, procs[i].port, procs[i].groups,
                                           procs[i].weights) : b \in procs[i].before}

\* a select on port 1 has read the table setGroupServers left, twice, while
\* a setActiveGroups on port 1 waits for the lock
C26_Witness ==
  \E i, j \in ProcIds :
    /\ procs[i].kind = "select" /\ procs[i].port = 1 /\ procs[i].pc = "runlock"
    /\ procs[i].seen1 = {[g \in {LockGroup} |->
                           [Weight |-> LockWeight, Servers |-> LockServers]]}
    /\ procs[i].seen2 = procs[i].seen1
    /\ procs[j].kind = "setActiveGroups" /\ procs[j].port = 1
    /\ procs[j].pc = "lock"

\* C27: an activation of a port that New was not given never closes a nil
\* signal and does not fault; when it returns the port has a table and an
\* open signal.
C27_UnregisteredActivation ==
  \A a \in ActIds :
    (acts[a] # IdleAct /\ acts[a].port \in UnregisteredPorts) =>
      /\ acts[a].pc = "close" => acts[a].ch # NilChan
      /\ acts[a].pc # "panicked"
      /\ acts[a].pc = "done" =>
           /\ acts[a].port \in DOMAIN portGroups
           /\ acts[a].port \in DOMAIN terminateSignals
           /\ terminateSignals[acts[a].port] \notin chanClosed[acts[a].port]

\* the step is a request to handler h that has been answered
Answers(h) ==
  /\ lastCall = NoCall
  /\ lastCall' # NoCall
  /\ lastCall'.op = "http"
  /\ lastCall'.handler = h

HttpHandlers == {"getGroups", "setGroup", "deleteGroup", "activate"}

\* C28: GET /ports/{port}/groups with an integer port is answered 200 with
\* the groups of the table of the port, each with its weight and servers,
\* and with no group when the port has no table; the registry, its set of
\* ports and the signals are as before.
C28_GetGroups ==
  [][(Answers("getGroups") /\ ~Atoi(lastCall'.portStr).err) =>
       LET p == Atoi(lastCall'.portStr).val
           t == TableOf(portGroups, p)
           resp == lastCall'.response
       IN /\ lastCall'.status = StatusOK
          /\ DOMAIN resp = DOMAIN t
          /\ \A g \in DOMAIN t : /\ resp[g].weight = t[g].Weight
                                  /\ resp[g].servers = t[g].Servers
          /\ p \notin DOMAIN portGroups => DOMAIN resp = {}
          /\ portGroups' = portGroups
          /\ DOMAIN portGroups' = DOMAIN portGroups
          /\ UNCHANGED tokVars]_vars

\* the groups of port 3, which has no table, were read: the answer is 200
\* with no group, and port 3 still has no table, while port 1 has groups
C28_Witness ==
  /\ lastCall # NoCall /\ lastCall.op = "http"
  /\ lastCall.handler = "getGroups" /\ lastCall.portStr = <<"3">>
  /\ lastCall.status = StatusOK /\ DOMAIN lastCall.response = {}
  /\ 3 \notin DOMAIN portGroups
  /\ DOMAIN portGroups[1] = HttpGroups

\* C29: a request whose port is not an integer is answered 400, a
\* setGroup or activate request whose body cannot be parsed is answered 400
\* or 422, and neither changes the registry or the signals.
C29_RejectedAtBoundary ==
  [][\A h \in HttpHandlers :
       Answers(h) =>
         LET badPort == Atoi(lastCall'.portStr).err
             badBody == ~lastCall'.body.parsable
         IN /\ badPort => lastCall'.status = StatusBadRequest
            /\ (~badPort /\ badBody) =>
                 lastCall'.status = StatusUnprocessableEntity
            /\ (badPort \/ badBody) =>
                 /\ portGroups' = portGroups
                 /\ UNCHANGED tokVars]_vars

\* an activation of port 3 with a body that cannot be parsed was answered
\* 422 and port 3 has no table
C29_Witness ==
  /\ lastCall # NoCall /\ lastCall.op = "http"
  /\ lastCall.handler = "activate" /\ lastCall.portStr = <<"3">>
  /\ ~lastCall.body.parsable
  /\ lastCall.status = StatusUnprocessableEntity
  /\ 3 \notin DOMAIN portGroups

\* the servers a new connection to port p of registry pg can be given
\* ("" refuses it)
RoutedTo(pg, p) == SelectOutcomes(pg, p)

\* C30: the README example, on any port. A group added without a weight
\* starts with weight 0; while every group of a port has weight 0 every
\* connection to the port is refused; an activation of one group g of a
\* table that has g, with one positive weight w, leaves g with weight w and
\* every other group with weight 0, and every connection goes to a server
\* of g; an activation of no group leaves every weight 0 and every
\* connection refused.
C30_ReadmeCutover ==
  /\ [](\A p \in DOMAIN portGroups :
          (\A g \in DOMAIN portGroups[p] : portGroups[p][g].Weight = 0) =>
            RoutedTo(portGroups, p) = {""})
  /\ [][/\ (Answers("setGroup") /\ lastCall'.status = StatusOK) =>
            LET p == Atoi(lastCall'.portStr).val
                g == FieldOr(lastCall'.body.name, "")
            IN (lastCall'.body.weight = {} /\ g \notin DOMAIN TableOf(portGroups, p))
                 => portGroups'[p][g].Weight = 0
        /\ (Answers("activate") /\ lastCall'.status = StatusOK) =>
            LET p == Atoi(lastCall'.portStr).val
                groups == FieldOr(lastCall'.body.groups, <<>>)
                weights == FieldOr(lastCall'.body.weights, <<>>)
                t == portGroups'[p]
            IN /\ (/\ Len(groups) = 1 /\ Len(weights) = 1 /\ weights[1] > 0
                   /\ groups[1] \in DOMAIN TableOf(portGroups, p)
                   /\ portGroups[p][groups[1]].Servers # <<>>) =>
                    /\ t[groups[1]].Weight = weights[1]
                    /\ \A g \in DOMAIN t \ {groups[1]} : t[g].Weight = 0
                    /\ RoutedTo(portGroups', p) = Range(t[groups[1]].Servers)
               /\ groups = <<>> =>
                    /\ \A g \in DOMAIN t : t[g].Weight = 0
                    /\ RoutedTo(portGroups', p) = {""}]_vars

\* the end of the example: port 1 has primary and standby, both with their
\* server and weight 0, after its third activation, which named no group
C30_Witness ==
  /\ lastCall # NoCall /\ lastCall.op = "http"
  /\ lastCall.handler = "activate" /\ lastCall.portStr = <<"1">>
  /\ lastCall.body.groups = {<<>>} /\ lastCall.status = StatusOK
  /\ DOMAIN portGroups[1] = HttpGroups
  /\ portGroups[1]["primary"] = [Weight |-> 0, Servers |-> <<"s1">>]
  /\ portGroups[1]["standby"] = [Weight |-> 0, Servers |-> <<"s2">>]
  /\ chanMade[1] = 4
  /\ RoutedTo(portGroups, 1) = {""}

\* C31: a step that changes the registry (setGroupServers, deleteGroup,
\* setActiveGroups) closes no signal, replaces no signal and changes no
\* connection or the counter; a handler blocked on an open signal has both
\* its sockets open, whatever became of the group of its server.
C31_ReconfigureKeepsTraffic ==
  /\ [](\A c \in ConnIds :
          (Waiting(c) /\ conns[c].tok \notin chanClosed[conns[c].port]) =>
            conns[c].clientOpen /\ conns[c].backendOpen)
  /\ [][portGroups' # portGroups =>
          /\ UNCHANGED tokVars
          /\ conns' = conns
          /\ connections' = connections]_vars

\* a handler spliced to s1 is still blocked, with its sockets open, on the
\* first signal of port 1 after the group of s1 was deleted
C31_Witness ==
  \E c \in ConnIds :
    /\ Waiting(c) /\ conns[c].port = 1 /\ conns[c].server = "s1"
    /\ conns[c].clientOpen /\ conns[c].backendOpen
    /\ conns[c].tok = 1 /\ terminateSignals[1] = 1 /\ chanClosed[1] = {}
    /\ "a" \notin DOMAIN portGroups[1]

\* the current signal of port q (nil when the map has no entry)
TokOf(ts, q) == IF q \in DOMAIN ts THEN ts[q] ELSE NilChan

\* C32: a step of an activation of port P changes the current signal, the
\* closed signals and the connections of no other port Q; a connection of Q
\* is closed only after a signal of Q was closed, and a signal of Q is
\* closed only by an activation of Q.
C32_TokensPerPort ==
  /\ [](\A q \in Ports :
          /\ (\E c \in ConnIds : conns[c].state = "closed" /\ conns[c].port = q)
               => chanClosed[q] # {}
          /\ chanClosed[q] # {} =>
               \E a \in ActIds : /\ acts[a].port = q
                                  /\ acts[a].pc \in {"install", "done", "panicked"})
  /\ [][\A a \in ActIds :
          (acts'[a] # acts[a] /\ acts[a].pc \in {"close", "install"}) =>
            /\ \A q \in Ports \ {acts[a].port} :
                 /\ TokOf(terminateSignals', q) = TokOf(terminateSignals, q)
                 /\ chanClosed'[q] = chanClosed[q]
                 /\ chanMade'[q] = chanMade[q]
            /\ \A c \in ConnIds :
                 conns[c].port # acts[a].port => conns'[c] = conns[c]]_vars

\* port 2 has been advanced while a handler of port 1 is blocked; the
\* handler still waits on the first signal of port 1, which is open
C32_Witness ==
  \E c \in ConnIds :
    /\ Waiting(c) /\ conns[c].port = 1 /\ conns[c].tok = 1
    /\ conns[c].clientOpen /\ conns[c].backendOpen
    /\ terminateSignals[1] = 1 /\ chanClosed[1] = {}
    /\ terminateSignals[2] = 2 /\ chanClosed[2] = {1}

\* C33: in every table the total weight is at least the weight of each
\* group that has a weight > 0 and a server; the draw of a select is within
\* the total weight of the table as it is at the call, and the server it
\* returns is a server of a group that has weight > 0 in that table: a
\* server only of deleted or zeroed groups is not returned.
C33_NoStaleRouting ==
  /\ \A p \in DOMAIN portGroups : \A g \in DOMAIN portGroups[p] :
       (portGroups[p][g].Weight > 0 /\ portGroups[p][g].Servers # <<>>) =>
         TotalWeight(portGroups[p]) >= portGroups[p][g].Weight
  /\ (IsCall(lastCall, "select") /\ lastCall.result \notin {"", FatalExit}) =>
       LET t == TableOf(portGroups, lastCall.port)
       IN /\ lastCall.k <= TotalWeight(t) * RScale
          /\ \E h \in DOMAIN t : /\ t[h].Weight > 0
                                  /\ lastCall.result \in Range(t[h].Servers)

\* a select of port 1 has returned the server of b while a, whose only
\* server is s2, has weight 0
C33_Witness ==
  /\ IsCall(lastCall, "select") /\ lastCall.port = 1
  /\ lastCall.result = "s1"
  /\ DOMAIN portGroups[1] = {"a", "b"}
  /\ portGroups[1]["a"] = [Weight |-> 0, Servers |-> <<"s2">>]
  /\ portGroups[1]["b"].Weight > 0
  /\ portGroups[1]["b"].Servers = <<"s1">>

\* C34: a handler whose sockets have reached end-of-stream (or failed) is
\* not left blocked: it can go on to close both ends and release its slot
\* without an advance of its port.
C34_EndOfStreamEnds ==
  \A c \in ConnIds : (Waiting(c) /\ conns[c].eof) => ENABLED Wake(c)

\* the handlers that have incremented the counter and were not woken yet
Counted == {c \in ConnIds : conns[c].state \in {"counted", "waiting"}}

\* C35: the counter is the number of handlers between their increment and
\* their wake-up, and is never negative; a step increments it only for a
\* handler whose dial succeeded in that step; and a blocked handler whose
\* port has been advanced since its dial can wake up, so that the counter
\* returns to 0 once every such port was advanced.
C35_CounterTracksWaiting ==
  /\ [](/\ connections = Cardinality(Counted)
        /\ connections >= 0
        /\ \A c \in ConnIds :
             (Waiting(c) /\ conns[c].dialTok \in chanClosed[conns[c].port])
               => ENABLED Wake(c))
  /\ [][connections' > connections =>
          \E c \in ConnIds : /\ conns[c].state = "dialing"
                             /\ conns'[c].state = "counted"
                             /\ conns'[c].backendOpen
                             /\ connections' = connections + 1]_vars

\* C36: after an accept error other than the closed listener's the loop of
\* the port goes on accepting; after the closed listener's error the loop
\* has returned and accepts no more.
C36_AcceptLoopErrors ==
  \A p \in DOMAIN listen :
    /\ listen[p].lastErr = OtherMsg => listen[p].state = "accepting"
    /\ listen[p].lastErr = ClosedMsg => listen[p].state = "returned"

\* the name g stands at more than one index
Repeated(names, g) ==
  \E i, j \in 1..Len(names) : i # j /\ names[i] = g /\ names[j] = g

\* C38: after setActiveGroups a group whose name is repeated in the request
\* has the weight of the last occurrence with a weight > 0, and weight 0
\* exactly when no occurrence has a weight > 0: an occurrence after it with
\* weight <= 0 or without a weight does not reset it.
C38_RepeatedName ==
  [][LET c == lastCall'
     IN IsCall(c, "setActiveGroups") =>
          LET t == TableOf(portGroups, c.port)
              t2 == portGroups'[c.port]
          IN \A g \in DOMAIN t :
               Repeated(c.groups, g) =>
                 /\ t2[g].Weight = 0 <=> ~NamedPositive(c.groups, c.weights, g)
                 /\ NamedPositive(c.groups, c.weights, g) =>
                      t2[g].Weight =
                        c.weights[LastPositive(c.groups, c.weights, g)]
                 /\ \A i \in 1..Len(c.groups) :
                      (/\ c.groups[i] = g /\ i <= Len(c.weights)
                       /\ c.weights[i] > 0
                       /\ \A j \in (i + 1)..Len(c.groups) :
                            c.groups[j] = g =>
                              (j > Len(c.weights) \/ c.weights[j] <= 0))
                        => t2[g].Weight = c.weights[i]]_vars

\* a group named twice, first with weight 1 and then with weight 0, has
\* weight 1
C38_Witness ==
  /\ IsCall(lastCall, "setActiveGroups")
  /\ lastCall.port = 1
  /\ lastCall.groups = <<"a", "a">> /\ lastCall.weights = <<1, 0>>
  /\ "a" \in DOMAIN portGroups[1]
  /\ portGroups[1]["a"].Weight = 1

\* C37: the close of an activation wakes no handler whose client was
\* accepted, and so whose server was selected, after the setActiveGroups of
\* that activation returned (clients are numbered in the order of their
\* accepts).
C37_NotClosedByOwnActivation ==
  [][\A a \in ActIds :
       (acts[a].pc = "close" /\ acts'[a].pc = "install") =>
         \A c \in ConnIds :
           (/\ Waiting(c) /\ conns[c].port = acts[a].port
            /\ conns[c].tok = acts[a].ch
            /\ conns[c].tok \in chanClosed'[conns[c].port]) =>
             c <= acts[a].accepted]_vars

\* C39: setGroupServers with a weight > 0 and at least one server leaves
\* the group with that weight and those servers, changes no signal and no
\* connection, and from then on every selection of the port returns a
\* server: the port routes again without an activation.
C39_SetGroupActivates ==
  [][LET c == lastCall'
     IN (IsCall(c, "setGroupServers") /\ c.weight > 0 /\ c.servers # <<>>) =>
          /\ portGroups'[c.port][c.group] =
               [Weight |-> c.weight, Servers |-> c.servers]
          /\ UNCHANGED tokVars
          /\ UNCHANGED connVars
          /\ SelectOutcomes(portGroups', c.port) \cap {"", FatalExit} = {}]_vars

\* the activations of port p that have returned
Completed(p) == {a \in ActIds : acts[a].port = p /\ acts[a].pc = "done"}

\* an activation of port p stands between its close and its store
Swapping(p) == \E a \in ActIds : acts[a].port = p /\ acts[a].pc = "install"

\* C40: every port given to New has one current signal; the signals made
\* before it are exactly the closed ones, except that between the close and
\* the store of an activation of the port the current signal is closed too;
\* outside of that the current signal is open and the closed signals are
\* as many as the activations of the port that have returned; and a step
\* that changes the current signal installs one that was never made before.
C40_LinearGenerations ==
  /\ [](\A p \in RegisteredPorts :
          /\ p \in DOMAIN terminateSignals
          /\ terminateSignals[p] = chanMade[p]
          /\ \A n \in 1..(chanMade[p] - 1) : n \in chanClosed[p]
          /\ chanClosed[p] \subseteq 1..chanMade[p]
          /\ terminateSignals[p] \in chanClosed[p] <=> Swapping(p)
          /\ ~Swapping(p) =>
               Cardinality(chanClosed[p]) = Cardinality(Completed(p)))
  /\ [][\A p \in RegisteredPorts :
          terminateSignals'[p] # terminateSignals[p] =>
            /\ terminateSignals'[p] \notin chanClosed[p]
            /\ terminateSignals'[p] > chanMade[p]
            /\ chanClosed'[p] = chanClosed[p]]_vars

\* port 1 after two activations that returned and one that faulted: its
\* third signal is current and open, the first two are closed
C40_Witness ==
  /\ terminateSignals[1] = 3 /\ chanClosed[1] = {1, 2}
  /\ Cardinality(Completed(1)) = 2
  /\ \E a \in ActIds : acts[a].port = 1 /\ acts[a].pc = "panicked"

====
